---- MODULE Spec2Model ----
(***************************************************************************)
(* Model of the dnn library's training engine (BackPropagation.fit and its *)
(* private helpers, dnn/training/back_propagation.py) and of the im2col    *)
(* notebook module (dnn/utils/im2col.py), and of a chain of an AffineLayer  *)
(* (dnnet/layers/affine.py) followed by an ActivationLayer                 *)
(* (dnn/layers/activation.py).                                             *)
(***************************************************************************)
EXTENDS Integers, Sequences, FiniteSets, TLC

\* ---------------------------------------------------------------- bounds
MaxEpochs == 2
MaxBatchSize == 3
MaxData == 3
MaxDataLong == 10
MaxTest == 1
MaxLayers == 2
MaxBatches == 2
MaxChs == 2
MaxSide == 4
MaxWin == 2
MaxStride == 2
MaxPad == 1

\* ---------------------------------------------------------------- state
VARIABLES
    \* BackPropagation object (back_propagation.py:77-84)
    epochs,             \* self.epochs
    batch_size,         \* self.batch_size
    optimizer,          \* self.optimizer: reference of the template optimizer
    optimizers,         \* self.optimizers: key -> reference of an optimizer
    loss_function,      \* self.loss_function: "SquaredError" or another class
    heap,               \* optimizer objects: reference -> accumulated state
    \* frame of the running fit call (back_propagation.py:86-119)
    pc,                 \* position in fit
    layers,             \* argument layers: sequence of layers
    x_train, y_train,   \* arguments: sequences of sample ids
    x_test,             \* argument: sequence of sample ids (y_test alike)
    shuffle_per_epoch,  \* argument
    epoch,              \* loop variable of fit (line 110)
    i,                  \* loop variable of __train_one_epoch (line 155)
    raised,             \* exception that left fit, "none" if none
    \* layer chain state read and written by the engine
    w,                  \* layer.w per chain position: number of updates applied
    dw,                 \* layer.dw per chain position: the dy it was computed from
    fire,               \* layers[-1].fire: input it was computed from, weights seen
    \* record of what the running fit call has done
    batches,            \* batches trained in the current epoch, in order
    n_init,             \* calls of __initialize_optimizers
    refit,              \* line 201 replaced a non-empty self.optimizers
    n_updates,          \* completed calls of __train_one_batch
    n_evals,            \* completed calls of __evaluate
    n_finalize,         \* calls of __finalize_training
    evaluation,         \* what the latest __evaluate computed
    \* namespace of the im2col module (im2col.py, module level)
    names,              \* module-level names bound so far
    pad,                \* module-level pad (line 226)
    gap_r, gap_c,       \* module-level gap_r, gap_c (line 250)
    \* a call of im2col (line 149) from outside
    ipc,                \* "ready" or "returned"
    call,               \* its arguments
    ret,                \* what it returned or raised
    \* a chain: parent -> AffineLayer -> ActivationLayer -> child
    parent,             \* the layer before the AffineLayer: its output_shape
    affine_layer,       \* attributes of the AffineLayer object
    activation_layer,   \* attributes of the ActivationLayer object
    lpc,                \* "new", "constructed", "wired" or "failed"
    lraised,            \* exception that left the latest call, "none" if none
    lop,                \* the latest call on the chain, its argument, the calls it made
    fwd,                \* what the latest forward call left in the chain
    ncalls,             \* calls made on the wired chain
    fcalls              \* the calls of the latest forward or predict pass

bp_vars == <<epochs, batch_size, optimizer, optimizers, loss_function, heap,
             pc, layers, x_train, y_train, x_test, shuffle_per_epoch, epoch, i,
             raised, w, dw, fire, batches, n_init, refit, n_updates,
             n_evals, n_finalize, evaluation>>

im_vars == <<names, pad, gap_r, gap_c, ipc, call, ret>>

ly_vars == <<parent, affine_layer, activation_layer, lpc, lraised, lop, fwd,
             ncalls, fcalls>>

vars == <<bp_vars, im_vars, ly_vars>>

\* ---------------------------------------------------------------- helpers
Min(a, b) == IF a < b THEN a ELSE b

\* Python slice s[lo:hi] of a sequence, 0-based, clamped to the length.
Slice(s, lo, hi) == SubSeq(s, lo + 1, Min(hi, Len(s)))

\* Python range(start, stop, step): is value v (reached by stepping) inside?
range_has(v, stop) == v < stop

NoFire == [x |-> << >>, w |-> << >>]
NoDy == [fire |-> NoFire, t |-> << >>]
NoEvaluation == [raised |-> "none", loss_train |-> FALSE, loss_test |-> FALSE,
                 acc_train |-> FALSE, acc_test |-> FALSE]

\* Layer chains handed to fit: every layer answers has_weight().
Chains == UNION {[1..len -> [has_weight : BOOLEAN]] : len \in 1..MaxLayers}

\* enumerate(layers, start): the (index, layer) pairs in chain order.
enumerate(ls, start) == [j \in 1..Len(ls) |-> <<start + j - 1, ls[j]>>]

\* Chain positions (1-based) of the layers with weights.
WeightPositions(ls) == {j \in 1..Len(ls) : ls[j].has_weight}

\* no copy: the reference of an object that already exists, the template
NewRef_Shared(h) == CHOOSE r \in DOMAIN h : TRUE

\* copy.deepcopy(optimizer): a new object holding a copy of the state.
NewRef(h) == CHOOSE r \in 1..(Cardinality(DOMAIN h) + 1) : r \notin DOMAIN h

RECURSIVE initialize_from(_, _, _, _, _)
initialize_from(j, pairs, opts, h, template) ==
    IF j > Len(pairs) THEN [optimizers |-> opts, heap |-> h]
    ELSE IF pairs[j][2].has_weight = TRUE
         THEN LET r == NewRef(h)
              IN initialize_from(j + 1, pairs,
                     [k \in DOMAIN opts \cup {pairs[j][1]} |->
                         IF k = pairs[j][1] THEN r ELSE opts[k]],
                     [q \in DOMAIN h \cup {r} |->
                         IF q = r THEN h[template] ELSE h[q]],
                     template)
         ELSE initialize_from(j + 1, pairs, opts, h, template)

\* The same with enumerate(layers) counting from 0.
initialize_optimizers_ZeroBased(ls, template, h) ==
    initialize_from(1, enumerate(ls, 0), << >>,
                    [q \in {template} |-> h[template]], template)

\* __initialize_optimizers: self.optimizers = OrderedDict(), then one deep
\* copy of the template per layer with weights, keyed by enumerate(layers, 1).
\* Objects no longer referenced are dropped from the heap.
initialize_optimizers(ls, template, h) ==
    initialize_from(1, enumerate(ls, 1), << >>,
                    [q \in {template} |-> h[template]], template)

\* Optimizer.optimize(w, dw): accumulates into the optimizer's own state.
optimize(state) == state + 1

\* __optimize_network: in chain order, for every layer with weights,
\* self.optimizers[i].optimize(layer.w, layer.dw).  fail_at is the position
\* whose optimize call raises (0: none raises).
RECURSIVE optimize_from(_, _, _, _, _, _)
optimize_from(j, pairs, opts, h, ws, fail_at) ==
    IF j > Len(pairs) THEN [raised |-> "none", heap |-> h, w |-> ws]
    ELSE IF pairs[j][2].has_weight = TRUE
         THEN IF pairs[j][1] \notin DOMAIN opts
              THEN [raised |-> "KeyError", heap |-> h, w |-> ws]
              ELSE IF fail_at = j
              THEN [raised |-> "Error", heap |-> h, w |-> ws]
              ELSE optimize_from(j + 1, pairs, opts,
                       [h EXCEPT ![opts[pairs[j][1]]] = optimize(@)],
                       [ws EXCEPT ![j] = @ + 1], fail_at)
         ELSE optimize_from(j + 1, pairs, opts, h, ws, fail_at)

optimize_network(ls, opts, h, ws, fail_at) ==
    optimize_from(1, enumerate(ls, 1), opts, h, ws, fail_at)

\* __evaluate, lines 245-261: which results are computed, and the error of
\* line 260 when y_test_pred is still None.
evaluate(loss, test_size) ==
    LET has_test_pred == test_size # 0
    IN IF loss # "SquaredError" /\ ~has_test_pred
       THEN [raised |-> "AttributeError", loss_train |-> TRUE,
             loss_test |-> FALSE, acc_train |-> TRUE, acc_test |-> FALSE]
       ELSE [raised |-> "none", loss_train |-> TRUE,
             loss_test |-> has_test_pred,
             acc_train |-> loss # "SquaredError",
             acc_test |-> loss # "SquaredError" /\ has_test_pred]

\* Permutations a shuffle may draw: reversal and rotation by one.
Shuffles(n) ==
    { [j \in 1..n |-> n + 1 - j], [j \in 1..n |-> (j % n) + 1] }

\* shuffle_data(x, y): one permutation applied to both.
shuffle_data(x, y, p) ==
    [x |-> [j \in 1..Len(x) |-> x[p[j]]], y |-> [j \in 1..Len(y) |-> y[p[j]]]]

\* Control flow of fit and its helpers.
\* The loop running once more than range(self.epochs).
EpochLoopTarget_OneMore(e, n_epochs) ==
    IF e <= n_epochs THEN "batch" ELSE "finalize"

\* for epoch in range(self.epochs): next position at the loop head.
EpochLoopTarget(e, n_epochs) ==
    IF range_has(e, n_epochs) THEN "batch" ELSE "finalize"

\* The loop taking full batches only.
BatchLoopTarget_FullOnly(start, size, data_num) ==
    IF start + size <= data_num THEN "forward" ELSE "evaluate"

\* for i in range(0, data_num, self.batch_size): next position at the head.
BatchLoopTarget(start, size, data_num) ==
    IF range_has(start, data_num) THEN "forward" ELSE "evaluate"

\* end = i + batch_size, clamped to data_num (lines 156-159).
BatchEnd(start, size, data_num) ==
    IF start + size > data_num THEN data_num ELSE start + size

\* __train_one_batch, lines 184-186: the statement after each call.
AfterForward == "backward"
\* The batch ending without the weight update.
AfterBackward_SkipOptimize == "batch"
AfterBackward == "optimize"
AfterOptimize == "batch"
\* fit leaving the loop after the first evaluation.
AfterEvaluate_Finalize == "finalize"
\* fit, lines 115-117: after __evaluate the loop head, after the loop finalize.
AfterEvaluate == "epoch"
AfterFinalize == "done"
\* An exception swallowed, training going on with the batch loop.
OnRaise_Continue == "batch"
\* No handler in fit or its helpers: an exception leaves fit.
OnRaise == "aborted"

\* ================================================================ im2col.py
\* An image is its shape and, on the row and column axes, the number of zero
\* rows above and below and of zero columns left and right of the original
\* pixels.
Image(shape) ==
    [shape |-> shape, top |-> 0, left |-> 0, bottom |-> 0, right |-> 0]

NoImage == Image(<< >>)

Raise(e) == [raised |-> e, img |-> NoImage]

Return_img(img) == [raised |-> "none", img |-> img]

\* numpy arrays: a shape and the cells in C order.
RECURSIVE size_from(_, _)
size_from(shape, j) ==
    IF j > Len(shape) THEN 1 ELSE shape[j] * size_from(shape, j + 1)

\* number of cells of an array of this shape
size(shape) == size_from(shape, 1)

\* strides, in cells, of a C-contiguous array of this shape
c_strides(shape) == [j \in 1..Len(shape) |-> size_from(shape, j + 1)]

RECURSIVE dot_from(_, _, _)
dot_from(idx, strides, j) ==
    IF j > Len(idx) THEN 0
    ELSE idx[j] * strides[j] + dot_from(idx, strides, j + 1)

\* the cell an index (0-based per axis) addresses under the strides
offset(idx, strides) == dot_from(idx, strides, 1)

\* the index of the k-th cell (0-based) of an array of this shape, whose
\* C-contiguous strides are st
unravel_st(k, shape, st) ==
    [j \in 1..Len(shape) |-> (k \div st[j]) % shape[j]]

unravel(k, shape) == unravel_st(k, shape, c_strides(shape))

Array(shape, cells) == [shape |-> shape, at |-> cells]

\* a[idx], idx 0-based per axis
cell(a, idx) == a.at[offset(idx, c_strides(a.shape)) + 1]

\* as_strided(a, shape=shape, strides=strides) on a C-contiguous a
as_strided(a, shape, strides) ==
    LET st == c_strides(shape)
    IN  Array(shape, [k \in 1..size(shape) |->
                        a.at[offset(unravel_st(k - 1, shape, st), strides)
                             + 1]])

\* a.transpose(axes), axes 0-based
transpose(a, axes) ==
    LET shape == [j \in 1..Len(axes) |-> a.shape[axes[j] + 1]]
        st == c_strides(shape)
        \* the strides of a, taken in the order of axes
        st_a == LET c == c_strides(a.shape)
                IN  [j \in 1..Len(axes) |-> c[axes[j] + 1]]
    IN  Array(shape, [k \in 1..size(shape) |->
                        a.at[offset(unravel_st(k - 1, shape, st), st_a) + 1]])

\* a.reshape(shape), for a shape with as many cells
reshape(a, shape) == Array(shape, a.at)

\* the cells of an image of pixels 1, 2, ... in C order, zero where padded
cells_of(img) ==
    LET s == img.shape
        st == c_strides(s)
        st0 == c_strides([s EXCEPT ![3] = s[3] - img.top - img.bottom,
                                   ![4] = s[4] - img.left - img.right])
        value(t) ==
            IF /\ t[3] >= img.top /\ t[3] < s[3] - img.bottom
               /\ t[4] >= img.left /\ t[4] < s[4] - img.right
            THEN 1 + offset(<<t[1], t[2], t[3] - img.top, t[4] - img.left>>,
                            st0)
            ELSE 0
    IN  Array(s, [k \in 1..size(s) |-> value(unravel_st(k - 1, s, st))])

\* A pad entry of one axis: an int p, or a tuple (a, b).
PadInt(p) == [tuple |-> FALSE, a |-> p, b |-> p]

PadTuple(a, b) == [tuple |-> TRUE, a |-> a, b |-> b]

\* np.prod of a pair
prod(t) == t[1] * t[2]

\* pad_img(img, pad_rows, pad_cols); g is the module namespace, where the
\* name pad of line 51 is looked up.
pad_img(img, pad_rows, pad_cols, g) ==
    LET ndim == Len(img.shape)
        \* lines 54-66: one (0, 0) per leading axis, the rows entry, and the
        \* cols entry unless pad_cols is the int 0
        npad_len == (ndim - 2) + 1
                    + (IF pad_cols.tuple \/ pad_cols.a # 0 THEN 1 ELSE 0)
    IN  IF ndim < 2 THEN Raise("RuntimeError")
        ELSE IF "pad" \notin g.names THEN Raise("NameError")
        ELSE IF prod(g.pad) = 0 THEN Return_img(img)
        ELSE IF npad_len # ndim THEN Raise("ValueError")
        ELSE Return_img(
               [shape |-> [k \in 1..ndim |->
                             IF k = ndim - 1
                             THEN img.shape[k] + pad_rows.a + pad_rows.b
                             ELSE IF k = ndim
                             THEN img.shape[k] + pad_cols.a + pad_cols.b
                             ELSE img.shape[k]],
                top |-> img.top + pad_rows.a,
                left |-> img.left + pad_cols.a,
                bottom |-> img.bottom + pad_rows.b,
                right |-> img.right + pad_cols.b])

\* reshape_img(img), lines 90-99
reshape_img(img) ==
    LET s == img.shape
    IN  IF Len(s) = 1 THEN Return_img([img EXCEPT !.shape = <<1, 1, 1, s[1]>>])
        ELSE IF Len(s) = 2
        THEN Return_img([img EXCEPT !.shape = <<1, 1, s[1], s[2]>>])
        ELSE IF Len(s) = 3
        THEN Return_img([img EXCEPT !.shape = <<1, s[1], s[2], s[3]>>])
        ELSE IF Len(s) > 4 THEN Raise("RuntimeError")
        ELSE Return_img(img)

\* lines 115-117
get_remainders_of_filtering(rows, cols, f_rows, f_cols, strides) ==
    <<(rows - f_rows) % strides[1], (cols - f_cols) % strides[2]>>

\* extend_img_for_filtering(img, rem_r, rem_c): lines 144-145 read the names
\* gap_r and gap_c, which are not its parameters, from the module namespace g.
extend_img_for_filtering(img, rem_r, rem_c, g) ==
    IF ~({"gap_r", "gap_c"} \subseteq g.names) THEN Raise("NameError")
    ELSE LET pad_r == PadTuple(g.gap_r \div 2, g.gap_r - (g.gap_r \div 2))
             pad_c == PadTuple(g.gap_c \div 2, g.gap_c - (g.gap_c \div 2))
         IN  pad_img(img, pad_r, pad_c, g)

\* line 195: if (gap_r > 0) or (gap_c > 0)
needs_extension(gap_row, gap_col) == (gap_row > 0) \/ (gap_col > 0)

\* lines 208-209, without the + 1
dst_size_NoPlusOne(n, f, stride) == (n - f) \div stride

\* lines 208-209: dst_rows = (rows - f_rows) // strides[0] + 1
dst_size(n, f, stride) == (n - f) \div stride + 1

NoMatrix ==
    [raised |-> "none", shape |-> << >>, pimg |-> NoImage, data |-> << >>]

\* lines 203-217: the strided view of pimg and its reshape to a matrix
as_matrix(pimg, f_shape, strides) ==
    LET dst_rows == dst_size(pimg.shape[3], f_shape[1], strides[1])
        dst_cols == dst_size(pimg.shape[4], f_shape[2], strides[2])
        \* lines 203-206, strides counted in cells
        st == c_strides(pimg.shape)
        dst_strides == <<st[1], st[2], st[3] * strides[1], st[4] * strides[2],
                         st[3], st[4]>>
        dst_shape == <<pimg.shape[1], pimg.shape[2], dst_rows, dst_cols,
                       f_shape[1], f_shape[2]>>
        shape == <<pimg.shape[1] * dst_rows * dst_cols,
                   pimg.shape[2] * f_shape[1] * f_shape[2]>>
    IN  IF dst_rows < 0 \/ dst_cols < 0
        THEN [NoMatrix EXCEPT !.raised = "ValueError"]
        ELSE [raised |-> "none",
              shape |-> shape,
              pimg |-> pimg,
              data |-> reshape(transpose(as_strided(cells_of(pimg), dst_shape,
                                                    dst_strides),
                                         <<0, 2, 3, 1, 4, 5>>),
                               shape).at]

\* im2col(img, f_shape, pad, strides, force), lines 189-217
im2col(img, f_shape, pad_arg, strides, force, g) ==
    LET r == reshape_img(img)
        p == IF r.raised # "none" THEN r
             ELSE pad_img(r.img, pad_arg[1], pad_arg[2], g)
    IN  IF p.raised # "none" THEN [NoMatrix EXCEPT !.raised = p.raised]
        ELSE
        LET gap == get_remainders_of_filtering(
                       p.img.shape[3], p.img.shape[4],
                       f_shape[1], f_shape[2], strides)
            e == IF needs_extension(gap[1], gap[2])
                 THEN IF force
                      THEN extend_img_for_filtering(p.img, gap[1], gap[2], g)
                      ELSE Raise("RuntimeError")
                 ELSE p
        IN  IF e.raised # "none" THEN [NoMatrix EXCEPT !.raised = e.raised]
            ELSE as_matrix(e.img, f_shape, strides)

\* im2col(image, window_shape, pad, strides, ch_axis) of line 384: after
\* assert_strides (385-391, on axes 0 and 1 of image.shape) and the strided
\* view, both returns (458, 461) read the unbound name batch_size.
im2col_window(image, window_shape, strides, ch_axis, g) ==
    LET s == image.shape
    IN  IF Len(s) < 1 THEN [NoMatrix EXCEPT !.raised = "IndexError"]
        ELSE IF (s[1] - window_shape[1]) % strides[1] > 0
        THEN [NoMatrix EXCEPT !.raised = "RuntimeError"]
        ELSE IF Len(s) < 2 THEN [NoMatrix EXCEPT !.raised = "IndexError"]
        ELSE IF (s[2] - window_shape[2]) % strides[2] > 0
        THEN [NoMatrix EXCEPT !.raised = "RuntimeError"]
        ELSE IF Len(s) # 4 THEN [NoMatrix EXCEPT !.raised = "ValueError"]
        ELSE IF dst_size(s[3], window_shape[1], strides[1]) < 0
                \/ dst_size(s[4], window_shape[2], strides[2]) < 0
        THEN [NoMatrix EXCEPT !.raised = "ValueError"]
        ELSE IF "batch_size" \notin g.names
        THEN [NoMatrix EXCEPT !.raised = "NameError"]
        ELSE
        LET dst_rows == dst_size(s[3], window_shape[1], strides[1])
            dst_cols == dst_size(s[4], window_shape[2], strides[2])
            st == c_strides(s)
            dst == as_strided(cells_of(image),
                       <<s[1], s[2], dst_rows, dst_cols,
                         window_shape[1], window_shape[2]>>,
                       <<st[1], st[2], st[3] * strides[1], st[4] * strides[2],
                         st[3], st[4]>>)
            dst_col == IF ch_axis = 0
                       THEN window_shape[1] * window_shape[2]
                       ELSE window_shape[1] * window_shape[2] * s[2]
            \* the -1 of reshape: what is left of the cells
            shape == IF ch_axis = 0
                     THEN <<g.batch_size, s[2],
                            size(dst.shape) \div (g.batch_size * s[2] * dst_col),
                            dst_col>>
                     ELSE <<g.batch_size,
                            size(dst.shape) \div (g.batch_size * dst_col),
                            dst_col>>
        IN  IF g.batch_size = 0 \/ size(shape) # size(dst.shape)
            THEN [NoMatrix EXCEPT !.raised = "ValueError"]
            ELSE [raised |-> "none", shape |-> shape, pimg |-> image,
                  data |-> IF ch_axis = 0 THEN dst.at
                           ELSE transpose(dst, <<0, 2, 3, 1, 4, 5>>).at]

\* col2im(mat, window_shape, batch_size, channels, h, w, strides, ch_axis),
\* lines 465-474; mat is an array.  Line 467 reads the names oh and ow from
\* the module namespace g.
col2im(mat, window_shape, batch_size_, channels, h_, w_, g) ==
    LET win_h == window_shape[1]
        win_w == window_shape[2]
        Err(e) == [NoMatrix EXCEPT !.raised = e]
    IN  IF ~({"oh", "ow"} \subseteq g.names) THEN Err("NameError")
        ELSE
        LET \* np.arange(0, oh*ow).reshape(oh, -1)[::win_h, ::win_w], flat
            nr == (g.oh + win_h - 1) \div win_h
            nc == (g.ow + win_w - 1) \div win_w
            row_indices == [q \in 1..(nr * nc) |->
                              (((q - 1) \div nc) * win_h) * g.ow
                              + ((q - 1) % nc) * win_w]
        IN  IF Len(mat.shape) # 3 THEN Err("IndexError")
            ELSE IF \E q \in 1..(nr * nc) : row_indices[q] >= mat.shape[2]
            THEN Err("IndexError")
            ELSE
            LET \* mat[:, row_indices, :]
                sel_shape == <<mat.shape[1], nr * nc, mat.shape[3]>>
                sel == Array(sel_shape,
                         [k \in 1..size(sel_shape) |->
                            LET t == unravel(k - 1, sel_shape)
                            IN  cell(mat, <<t[1], row_indices[t[2] + 1],
                                            t[3]>>)])
                s4 == <<batch_size_, 4, channels, win_h * win_w>>
                s6 == <<batch_size_, channels, h_ \div win_h, w_ \div win_w,
                        win_h, win_w>>
                s_img == <<batch_size_, channels, h_, w_>>
            IN  IF size(s4) # size(sel_shape) \/ size(s6) # size(s4)
                   \/ size(s_img) # size(s6)
                THEN Err("ValueError")
                ELSE [raised |-> "none",
                      shape |-> s_img,
                      pimg |-> NoImage,
                      data |-> transpose(
                                 reshape(transpose(reshape(sel, s4),
                                                   <<0, 2, 1, 3>>), s6),
                                 <<0, 1, 2, 4, 3, 5>>).at]

\* The inputs of the calls.
Shapes ==
    LET B == {1, MaxBatches}
        C == {1, MaxChs}
        S == 1..MaxSide
    IN  {<< >>}
        \cup {<<n>> : n \in S}
        \cup {<<h, w_>> : h \in S, w_ \in S}
        \cup {<<c, h, w_>> : c \in C, h \in S, w_ \in S}
        \cup {<<b, c, h, w_>> : b \in B, c \in C, h \in S, w_ \in S}
        \cup {<<1, b, c, h, w_>> : b \in B, c \in C, h \in S, w_ \in S}

Windows == {1, MaxWin} \X {1, MaxWin}

Strides == {1, MaxStride} \X {1, MaxStride}

PadEntries == {PadInt(0), PadInt(MaxPad), PadTuple(0, MaxPad)}

\* no pad; the same int on both axes; a pair on the rows only; an int on
\* the cols only
Pads == {<<PadInt(0), PadInt(0)>>, <<PadInt(MaxPad), PadInt(MaxPad)>>,
         <<PadTuple(0, MaxPad), PadInt(0)>>, <<PadInt(0), PadInt(MaxPad)>>}

NoCall == [def |-> 0, img |-> << >>, f_shape |-> <<1, 1>>,
           pad |-> <<PadInt(0), PadInt(0)>>, strides |-> <<1, 1>>,
           force |-> FALSE, ch_axis |-> 0, inner |-> 0, mat |-> << >>]

\* the module namespace as the functions see it
\* (no statement of the module binds batch_size, oh or ow)
Globals ==
    [names |-> names, pad |-> pad, gap_r |-> gap_r, gap_c |-> gap_c,
     batch_size |-> 0, oh |-> 0, ow |-> 0]

\* line 240, and lines 225, 227 of the cell before
cell_img == Image(<<2, 3, 6, 6>>)

cell_f_shape == <<3, 3>>

cell_strides == <<1, 1>>

\* ---------------------------------------------------------------- layers
\* bounds of the chain's inputs
MaxFeatures == 2
MaxRows == 2
MaxSeed == 2
MaxCalls == 4

\* AffineLayer(output_shape=10) of the mnist example
OutputClasses == 10

\* A layer shape as python holds it: an int (10) or a tuple ((1, 28, 28)).
IntShape(n) == [tuple |-> FALSE, dims |-> <<n>>]

TupleShape(d) == [tuple |-> TRUE, dims |-> d]

\* an attribute that holds no shape yet
NoShape == [tuple |-> FALSE, dims |-> << >>]

\* an attribute that is None or not set yet
None == Array(<<0>>, << >>)

\* a weight gradient: the matrix num, every entry divided by den
Grad(den, num) == [den |-> den, num |-> num]

\* np.prod of a layer shape
np_prod(shape) == size(shape.dims)

\* nn_utils.is_multi_channels_image: a (channels, rows, cols) shape
is_multi_channels_image(shape) == shape.tuple /\ Len(shape.dims) = 3

\* nn_utils.flatten: (batch, chs, rows, cols) -> (batch, chs*rows*cols)
flatten(m, im_shape) == reshape(m, <<m.shape[1], np_prod(im_shape)>>)

\* nn_utils.unflatten: (batch, chs*rows*cols) -> (batch, chs, rows, cols)
unflatten(m, im_shape) == reshape(m, <<m.shape[1]>> \o im_shape.dims)

\* m[r, c] of a 2-d array, 0-based
entry(m, r, c) == m.at[r * m.shape[2] + c + 1]

\* the array of the given shape and cells, its cells evaluated once
Cells(shape, cells) == IF cells = cells THEN Array(shape, cells) ELSE None

\* row and column, 0-based, of the k-th cell of an array of C columns
row_of(k, C) == (k - 1) \div C

col_of(k, C) == (k - 1) % C

RECURSIVE dot_sum(_, _, _, _, _)
dot_sum(a, b, r, c, k) ==
    IF k = 0 THEN 0
    ELSE entry(a, r, k - 1) * entry(b, k - 1, c) + dot_sum(a, b, r, c, k - 1)

\* np.dot of two 2-d arrays
np_dot(a, b) ==
    LET R == a.shape[1]
        C == b.shape[2]
    IN  Cells(<<R, C>>,
              [k \in 1..(R * C) |->
                  dot_sum(a, b, row_of(k, C), col_of(k, C), a.shape[2])])

\* m.T of a 2-d array
np_T(m) ==
    LET R == m.shape[2]
        C == m.shape[1]
    IN  Cells(<<R, C>>,
              [k \in 1..(R * C) |-> entry(m, col_of(k, C), row_of(k, C))])

\* np.c_[np.ones((rows, 1)), m]
c_ones(m) ==
    LET R == m.shape[1]
        C == m.shape[2] + 1
    IN  Cells(<<R, C>>,
              [k \in 1..(R * C) |->
                  IF col_of(k, C) = 0 THEN 1
                  ELSE entry(m, row_of(k, C), col_of(k, C) - 1)])

\* np.r_[np.zeros((1, cols)), m]
r_zeros(m) ==
    LET R == m.shape[1] + 1
        C == m.shape[2]
    IN  Cells(<<R, C>>,
              [k \in 1..(R * C) |->
                  IF row_of(k, C) = 0 THEN 0
                  ELSE entry(m, row_of(k, C) - 1, col_of(k, C))])

\* m[1:, :]
drop_row(m) ==
    LET R == m.shape[1] - 1
        C == m.shape[2]
    IN  Cells(<<R, C>>,
              [k \in 1..(R * C) |-> entry(m, row_of(k, C) + 1, col_of(k, C))])

\* np.zeros_like(m)
zeros_like(m) == Cells(m.shape, [k \in DOMAIN m.at |-> 0])

\* a * b, entry by entry
np_mul(a, b) == Cells(a.shape, [k \in DOMAIN a.at |-> a.at[k] * b.at[k]])

\* ---- Activation (activation.py)
\* the names of the members of Activation.Type
Type == {"sigmoid", "relu", "elu", "srrelu", "tanh", "softmax"}

\* a value passed as activation: a member of Activation.Type, or a string
EnumTag(name) == [enum |-> TRUE, name |-> name]

StrTag(name) == [enum |-> FALSE, name |-> name]

Tags == {EnumTag(name) : name \in Type} \cup {StrTag("relu"), StrTag("linear")}

\* ActivationFactory.get: the class of the instance returned; the chain of
\* "activation is Activation.Type.<member>" tests has no else branch, so any
\* other value falls off the end of the function, which returns None.
ActivationFactory_get(activation) ==
    IF activation = EnumTag("sigmoid") THEN "Sigmoid"
    ELSE IF activation = EnumTag("relu") THEN "ReLU"
    ELSE IF activation = EnumTag("elu") THEN "ELU"
    ELSE IF activation = EnumTag("srrelu") THEN "SRReLU"
    ELSE IF activation = EnumTag("tanh") THEN "Tanh"
    ELSE IF activation = EnumTag("softmax") THEN "Softmax"
    ELSE "None"

\* get_type() of an instance of each class derived from Activation
get_type(class) ==
    IF class = "Sigmoid" THEN "sigmoid"
    ELSE IF class = "ReLU" THEN "relu"
    ELSE IF class = "ELU" THEN "elu"
    ELSE IF class = "SRReLU" THEN "selu"
    ELSE IF class = "Tanh" THEN "tanh"
    ELSE IF class = "Softmax" THEN "softmax"
    ELSE "AttributeError"

\* ReLU.activate: records the mask of the strictly positive entries and
\* returns x * mask
\* a mask that also marks the entries equal to 0
ReLU_mask_NonNegative(m) ==
    Cells(m.shape, [k \in DOMAIN m.at |-> IF m.at[k] >= 0 THEN 1 ELSE 0])

ReLU_mask(m) ==
    Cells(m.shape, [k \in DOMAIN m.at |-> IF m.at[k] > 0 THEN 1 ELSE 0])

ReLU_activate(m) == np_mul(m, ReLU_mask(m))

\* ReLU.grad: the recorded mask, whatever the argument
ReLU_grad(mask, m) == mask

\* ---- ActivationLayer (activation.py)
ActivationLayer_init(activation) ==
    [tag |-> activation,
     activation |-> ActivationFactory_get(activation),
     mask |-> None,
     input_shape |-> NoShape,
     output_shape |-> NoShape,
     fire |-> None,
     backfire |-> None]

\* Layer.set_parent: the layer takes the parent's output_shape as its
\* input_shape
Layer_set_parent(self, parent_layer) ==
    [self EXCEPT !.input_shape = parent_layer.output_shape]

ActivationLayer_set_parent(self, parent_layer) ==
    LET s == Layer_set_parent(self, parent_layer)
    IN  [s EXCEPT !.output_shape = s.input_shape]

\* ActivationLayer.__forward with a ReLU
ActivationLayer_forward(self, m) ==
    LET m1 == IF is_multi_channels_image(self.input_shape)
              THEN flatten(m, self.input_shape) ELSE m
        f == ReLU_activate(m1)
    IN  [self EXCEPT
            !.mask = ReLU_mask(m1),
            !.fire = IF is_multi_channels_image(self.output_shape)
                     THEN unflatten(f, self.input_shape) ELSE f]

\* a __backward that leaves backfire flat
ActivationLayer_backward_NoUnflatten(self, dy) ==
    LET dy1 == IF is_multi_channels_image(self.output_shape)
               THEN flatten(dy, self.input_shape) ELSE dy
    IN  [self EXCEPT
            !.backfire = np_mul(dy1, ReLU_grad(self.mask, self.fire))]

\* ActivationLayer.__backward with a ReLU
ActivationLayer_backward(self, dy) ==
    LET dy1 == IF is_multi_channels_image(self.output_shape)
               THEN flatten(dy, self.input_shape) ELSE dy
        b == np_mul(dy1, ReLU_grad(self.mask, self.fire))
    IN  [self EXCEPT
            !.backfire = IF is_multi_channels_image(self.input_shape)
                         THEN unflatten(b, self.input_shape) ELSE b]

\* ---- AffineLayer (affine.py)
AffineLayer_init(output_shape) ==
    [output_shape |-> output_shape,
     input_shape |-> NoShape,
     x |-> None,
     w |-> None,
     dw |-> Grad(1, None),
     fire |-> None,
     backfire |-> None]

\* a set_parent that turns output_shape into a (batch, features) pair
AffineLayer_set_parent_BatchShape(self, parent_layer, w0) ==
    LET s == Layer_set_parent(self, parent_layer)
        ws == r_zeros(w0)
    IN  [s EXCEPT !.w = ws, !.dw = Grad(1, zeros_like(ws)),
                  !.output_shape = TupleShape(<<0>> \o self.output_shape.dims)]

\* AffineLayer.set_parent; w0 is what weight_initialization.get returned, an
\* array of np.prod(input_shape) rows and np.prod(output_shape) columns
AffineLayer_set_parent(self, parent_layer, w0) ==
    LET s == Layer_set_parent(self, parent_layer)
        ws == r_zeros(w0)
    IN  [s EXCEPT !.w = ws, !.dw = Grad(1, zeros_like(ws))]

\* AffineLayer.__forward
AffineLayer_forward(self, m) ==
    LET m1 == IF is_multi_channels_image(self.input_shape)
              THEN flatten(m, self.input_shape) ELSE m
        sx == c_ones(m1)
        f == np_dot(sx, self.w)
    IN  [self EXCEPT
            !.x = sx,
            !.fire = IF is_multi_channels_image(self.output_shape)
                     THEN unflatten(f, self.output_shape) ELSE f]

\* the weight gradient of one backward call: 1 / batch_size * x^T dy
weight_gradient(sx, dy) == Grad(sx.shape[1], np_dot(np_T(sx), dy))

\* a backward that adds the gradient of the call to the dw it finds
AffineLayer_backward_Accumulate(self, dy) ==
    LET dy1 == IF is_multi_channels_image(self.output_shape)
               THEN flatten(dy, self.output_shape) ELSE dy
        g == weight_gradient(self.x, dy1)
        b == np_dot(dy1, np_T(drop_row(self.w)))
    IN  [self EXCEPT
            !.dw = Grad(g.den, Cells(g.num.shape,
                        [k \in DOMAIN g.num.at |->
                            self.dw.num.at[k] + g.num.at[k]])),
            !.backfire = IF is_multi_channels_image(self.input_shape)
                         THEN unflatten(b, self.input_shape) ELSE b]

\* AffineLayer.__backward
AffineLayer_backward(self, dy) ==
    LET dy1 == IF is_multi_channels_image(self.output_shape)
               THEN flatten(dy, self.output_shape) ELSE dy
        b == np_dot(dy1, np_T(drop_row(self.w)))
    IN  [self EXCEPT
            !.dw = weight_gradient(self.x, dy1),
            !.backfire = IF is_multi_channels_image(self.input_shape)
                         THEN unflatten(b, self.input_shape) ELSE b]

\* ---- the chain parent -> AffineLayer -> ActivationLayer -> child
\* what a call on the chain has done: the layers after it, an exception that
\* left it, the value returned, and the calls made in the order of their
\* start
Chain(a, l, e, r, cs) ==
    [affine |-> a, activation |-> l, raised |-> e, ret |-> r, calls |-> cs]

\* one call of a layer's method: its argument, and the fire or backfire the
\* layer stored before it called the next layer (None for the stub layers at
\* both ends of the chain, and for a call that raised)
Call(layer, method, arg, out) ==
    [layer |-> layer, method |-> method, arg |-> arg, out |-> out]

\* AffineLayer.forward(x): __forward, then child.forward(self.fire), which is
\* ActivationLayer.forward: __forward, then its child's forward.  With no
\* activation object line 60 of activation.py raises AttributeError, after
\* the AffineLayer has stored x and fire.
chain_forward(a, l, m) ==
    LET a1 == AffineLayer_forward(a, m)
        l1 == ActivationLayer_forward(l, a1.fire)
    IN  IF l.activation = "None"
        THEN Chain(a1, l, "AttributeError", None,
                   <<Call("affine", "forward", m, a1.fire),
                     Call("activation", "forward", a1.fire, None)>>)
        ELSE Chain(a1, l1, "none", None,
                   <<Call("affine", "forward", m, a1.fire),
                     Call("activation", "forward", a1.fire, l1.fire),
                     Call("child", "forward", l1.fire, None)>>)

\* AffineLayer.predict(x): __forward, then returns child.predict(self.fire),
\* which is ActivationLayer.predict: __forward, then returns what its child's
\* predict returns, the ActivationLayer's fire.
chain_predict(a, l, m) ==
    LET a1 == AffineLayer_forward(a, m)
        l1 == ActivationLayer_forward(l, a1.fire)
    IN  IF l.activation = "None"
        THEN Chain(a1, l, "AttributeError", None,
                   <<Call("affine", "predict", m, a1.fire),
                     Call("activation", "predict", a1.fire, None)>>)
        ELSE Chain(a1, l1, "none", l1.fire,
                   <<Call("affine", "predict", m, a1.fire),
                     Call("activation", "predict", a1.fire, l1.fire),
                     Call("child", "predict", l1.fire, None)>>)

\* a backward pass that runs the AffineLayer's backward on dy before the
\* ActivationLayer has computed its backfire
chain_backward_ParentFirst(a, l, dy) ==
    IF l.fire = None
    THEN Chain(a, l, "AttributeError", None,
               <<Call("activation", "backward", dy, None)>>)
    ELSE LET a1 == AffineLayer_backward(a, dy)
             l1 == ActivationLayer_backward(l, dy)
         IN  Chain(a1, l1, "none", None,
                   <<Call("affine", "backward", dy, a1.backfire),
                     Call("parent", "backward", a1.backfire, None),
                     Call("activation", "backward", dy, l1.backfire)>>)

\* ActivationLayer.backward(dy): __backward, then parent.backward(backfire),
\* which is AffineLayer.backward: __backward, then its parent's backward.
\* Before the first forward or predict the ActivationLayer has no attribute
\* fire and line 69 of activation.py raises AttributeError.
chain_backward(a, l, dy) ==
    IF l.fire = None
    THEN Chain(a, l, "AttributeError", None,
               <<Call("activation", "backward", dy, None)>>)
    ELSE LET l1 == ActivationLayer_backward(l, dy)
             a1 == AffineLayer_backward(a, l1.backfire)
         IN  Chain(a1, l1, "none", None,
                   <<Call("activation", "backward", dy, l1.backfire),
                     Call("affine", "backward", l1.backfire, a1.backfire),
                     Call("parent", "backward", a1.backfire, None)>>)

\* ---- inputs of the chain
\* shapes of the layer before the AffineLayer
ParentShapes ==
    {IntShape(1), IntShape(MaxFeatures), TupleShape(<<1, 1, MaxFeatures>>)}

\* output_shape arguments of AffineLayer
AffineShapes ==
    {IntShape(1), IntShape(OutputClasses), TupleShape(<<1, 1, MaxFeatures>>)}

\* the draws of the weight initialization and of the gradients
Seeds == {0, MaxSeed}

\* an array of the given shape with entries in -1..2
Tensor(shape, seed) ==
    Cells(shape, [k \in 1..size(shape) |-> ((3 * k + seed) % 4) - 1])

\* a batch of n samples of the given layer shape
Batch(n, shape, seed) == Tensor(<<n>> \o shape.dims, seed)

\* a weight matrix with entries in -1..1
Weights(rows, cols, seed) ==
    Cells(<<rows, cols>>,
          [k \in 1..(rows * cols) |->
              ((row_of(k, cols) + 2 * col_of(k, cols) + seed) % 3) - 1])

NoOp == [op |-> "none", arg |-> None, ret |-> None, calls |-> << >>]

NoForward == [x |-> None, fire |-> None, mask |-> None, act_fire |-> None]

\* ---------------------------------------------------------------- Init
\* BackPropagation(epochs, batch_size, optimizer, loss_function, ...) built,
\* no fit call yet.
InitBackPropagation ==
    /\ optimizer = 0
    /\ optimizers = << >>
    /\ heap = [q \in {0} |-> 0]
    /\ pc = "idle"
    /\ layers = << >>
    /\ x_train = << >>
    /\ y_train = << >>
    /\ x_test = << >>
    /\ shuffle_per_epoch = FALSE
    /\ epoch = 0
    /\ i = 0
    /\ raised = "none"
    /\ w = << >>
    /\ dw = << >>
    /\ fire = NoFire
    /\ batches = << >>
    /\ n_init = 0
    /\ refit = FALSE
    /\ n_updates = 0
    /\ n_evals = 0
    /\ n_finalize = 0
    /\ evaluation = NoEvaluation

\* im2col.py run from its top through line 228: the functions of lines
\* 20-217 are defined and pad is bound; no call is in progress.
InitIm2colModule ==
    /\ names = {"pad"}
    /\ pad = <<0, 0>>
    /\ gap_r = 0
    /\ gap_c = 0
    /\ ipc = "ready"
    /\ call = NoCall
    /\ ret = NoMatrix

\* no layer constructed yet
InitChain ==
    /\ parent = [output_shape |-> NoShape]
    /\ affine_layer = AffineLayer_init(NoShape)
    /\ activation_layer = ActivationLayer_init(StrTag("none"))
    /\ lpc = "new"
    /\ lraised = "none"
    /\ lop = NoOp
    /\ fwd = NoForward
    /\ ncalls = 0
    /\ fcalls = << >>

InitBP ==
    /\ epochs \in 0..MaxEpochs
    /\ batch_size \in 1..MaxBatchSize
    /\ loss_function \in {"SquaredError", "MultinomialCrossEntropy"}
    /\ InitBackPropagation
    /\ InitIm2colModule
    /\ InitChain

InitIm2col ==
    /\ epochs = 0
    /\ batch_size = 1
    /\ loss_function = "SquaredError"
    /\ InitBackPropagation
    /\ InitIm2colModule
    /\ InitChain

InitLayers ==
    /\ epochs = 0
    /\ batch_size = 1
    /\ loss_function = "SquaredError"
    /\ InitBackPropagation
    /\ InitIm2colModule
    /\ InitChain

\* ---------------------------------------------------------------- actions
\* fit(layers, x_train, y_train, x_test, y_test, shuffle_per_epoch) is
\* entered with a freshly wired chain, and runs line 108,
\* self.__initialize_optimizers(layers).
Fit ==
    /\ pc = "idle"
    /\ \E ls \in Chains, n \in (1..MaxData) \cup {MaxDataLong}, m \in {0, MaxTest}, sh \in BOOLEAN :
        /\ layers' = ls
        /\ x_train' = [j \in 1..n |-> j]
        /\ y_train' = [j \in 1..n |-> j]
        /\ x_test' = [j \in 1..m |-> MaxDataLong + j]
        /\ shuffle_per_epoch' = sh
        /\ w' = [j \in 1..Len(ls) |-> 0]
        /\ dw' = [j \in 1..Len(ls) |-> NoDy]
        /\ LET r == initialize_optimizers(ls, optimizer, heap)
           IN /\ optimizers' = r.optimizers
              /\ heap' = r.heap
    /\ n_init' = n_init + 1
    /\ refit' = (DOMAIN optimizers # {})
    /\ pc' = "epoch"
    /\ UNCHANGED <<epochs, batch_size, optimizer, loss_function, epoch, i,
                   raised, fire, batches, n_updates, n_evals, n_finalize,
                   evaluation>>
    /\ UNCHANGED <<im_vars, ly_vars>>

\* lines 110-112: head of the epoch loop, with the shuffle of the epoch.
EpochLoop ==
    /\ pc = "epoch"
    /\ pc' = EpochLoopTarget(epoch, epochs)
    /\ IF range_has(epoch, epochs)
       THEN /\ IF shuffle_per_epoch
               THEN \E p \in Shuffles(Len(x_train)) :
                       LET s == shuffle_data(x_train, y_train, p)
                       IN x_train' = s.x /\ y_train' = s.y
               ELSE UNCHANGED <<x_train, y_train>>
            /\ i' = 0
            /\ batches' = << >>
       ELSE UNCHANGED <<x_train, y_train, i, batches>>
    /\ UNCHANGED <<epochs, batch_size, optimizer, optimizers, loss_function,
                   heap, layers, x_test, shuffle_per_epoch, epoch, raised, w,
                   dw, fire, n_init, refit, n_updates, n_evals, n_finalize,
                   evaluation>>
    /\ UNCHANGED <<im_vars, ly_vars>>

\* lines 155-159: head of the batch loop.
BatchLoop ==
    /\ pc = "batch"
    /\ pc' = BatchLoopTarget(i, batch_size, Len(x_train))
    /\ UNCHANGED <<epochs, batch_size, optimizer, optimizers, loss_function,
                   heap, layers, x_train, y_train, x_test, shuffle_per_epoch,
                   epoch, i, raised, w, dw, fire, batches, n_init, refit, n_updates,
                   n_evals, n_finalize, evaluation>>
    /\ UNCHANGED <<im_vars, ly_vars>>

\* line 184: layers[0].forward(x_train[i:end]); a layer may raise.
Forward ==
    /\ pc = "forward"
    /\ \E ok \in BOOLEAN :
        IF ok
        THEN /\ fire' = [x |-> Slice(x_train, i,
                                 BatchEnd(i, batch_size, Len(x_train))),
                         w |-> w]
             /\ pc' = AfterForward
             /\ UNCHANGED raised
        ELSE /\ pc' = OnRaise
             /\ raised' = "Error"
             /\ UNCHANGED fire
    /\ UNCHANGED <<epochs, batch_size, optimizer, optimizers, loss_function,
                   heap, layers, x_train, y_train, x_test, shuffle_per_epoch,
                   epoch, i, w, dw, batches, n_init, refit, n_updates, n_evals,
                   n_finalize, evaluation>>
    /\ UNCHANGED <<im_vars, ly_vars>>

\* line 185: layers[-1].backward(layers[-1].fire - y_train[i:end]); every
\* layer with weights computes its dw from the gradient passed down.
Backward ==
    /\ pc = "backward"
    /\ \E ok \in BOOLEAN :
        IF ok
        THEN /\ LET dy == [fire |-> fire,
                           t |-> Slice(y_train, i,
                                   BatchEnd(i, batch_size, Len(x_train)))]
                IN dw' = [j \in 1..Len(layers) |->
                            IF layers[j].has_weight THEN dy ELSE dw[j]]
             /\ pc' = AfterBackward
             /\ UNCHANGED raised
        ELSE /\ pc' = OnRaise
             /\ raised' = "Error"
             /\ UNCHANGED dw
    /\ UNCHANGED <<epochs, batch_size, optimizer, optimizers, loss_function,
                   heap, layers, x_train, y_train, x_test, shuffle_per_epoch,
                   epoch, i, w, fire, batches, n_init, refit, n_updates, n_evals,
                   n_finalize, evaluation>>
    /\ UNCHANGED <<im_vars, ly_vars>>

\* line 186: self.__optimize_network(layers), then the loop steps (line 155).
OptimizeNetwork ==
    /\ pc = "optimize"
    /\ \E fail_at \in 0..Len(layers) :
        /\ fail_at # 0 => layers[fail_at].has_weight
        /\ LET r == optimize_network(layers, optimizers, heap, w, fail_at)
               end == BatchEnd(i, batch_size, Len(x_train))
           IN /\ heap' = r.heap
              /\ w' = r.w
              /\ raised' = r.raised
              /\ IF r.raised = "none"
                 THEN /\ pc' = AfterOptimize
                      /\ i' = i + batch_size
                      /\ n_updates' = n_updates + 1
                      /\ batches' = Append(batches,
                                       [x |-> Slice(x_train, i, end),
                                        y |-> Slice(y_train, i, end)])
                 ELSE /\ pc' = OnRaise
                      /\ UNCHANGED <<i, n_updates, batches>>
    /\ UNCHANGED <<epochs, batch_size, optimizer, optimizers, loss_function,
                   layers, x_train, y_train, x_test, shuffle_per_epoch, epoch,
                   dw, fire, n_init, refit, n_evals, n_finalize, evaluation>>
    /\ UNCHANGED <<im_vars, ly_vars>>

\* line 115: self.__evaluate(...); predict runs the chain on the whole data.
Evaluate ==
    /\ pc = "evaluate"
    /\ LET r == evaluate(loss_function, Len(x_test))
       IN /\ evaluation' = r
          /\ raised' = r.raised
          /\ fire' = [x |-> IF Len(x_test) # 0 THEN x_test ELSE x_train,
                      w |-> w]
          /\ IF r.raised = "none"
             THEN /\ pc' = AfterEvaluate
                  /\ epoch' = epoch + 1
                  /\ n_evals' = n_evals + 1
             ELSE /\ pc' = OnRaise
                  /\ UNCHANGED <<epoch, n_evals>>
    /\ UNCHANGED <<epochs, batch_size, optimizer, optimizers, loss_function,
                   heap, layers, x_train, y_train, x_test, shuffle_per_epoch,
                   i, w, dw, batches, n_init, refit, n_updates, n_finalize>>
    /\ UNCHANGED <<im_vars, ly_vars>>

\* line 117: self.__finalize_training(layers, x_train).
FinalizeTraining ==
    /\ pc = "finalize"
    /\ n_finalize' = n_finalize + 1
    /\ pc' = AfterFinalize
    /\ UNCHANGED <<epochs, batch_size, optimizer, optimizers, loss_function,
                   heap, layers, x_train, y_train, x_test, shuffle_per_epoch,
                   epoch, i, raised, w, dw, fire, batches, n_init, refit, n_updates,
                   n_evals, evaluation>>
    /\ UNCHANGED <<im_vars, ly_vars>>

\* line 119 (return self.lc), or the exception reaching the caller: the
\* frame of fit is gone, the BackPropagation object keeps its optimizers.
Return ==
    /\ pc \in {"done", "aborted"}
    /\ pc' = "idle"
    /\ layers' = << >>
    /\ x_train' = << >>
    /\ y_train' = << >>
    /\ x_test' = << >>
    /\ shuffle_per_epoch' = FALSE
    /\ epoch' = 0
    /\ i' = 0
    /\ raised' = "none"
    /\ w' = << >>
    /\ dw' = << >>
    /\ fire' = NoFire
    /\ batches' = << >>
    /\ n_init' = 0
    /\ refit' = FALSE
    /\ n_updates' = 0
    /\ n_evals' = 0
    /\ n_finalize' = 0
    /\ evaluation' = NoEvaluation
    /\ UNCHANGED <<epochs, batch_size, optimizer, optimizers, loss_function, heap>>
    /\ UNCHANGED <<im_vars, ly_vars>>

NextBP ==
    \/ Fit
    \/ EpochLoop
    \/ BatchLoop
    \/ Forward
    \/ Backward
    \/ OptimizeNetwork
    \/ Evaluate
    \/ FinalizeTraining
    \/ Return

SpecBP == InitBP /\ [][NextBP]_vars

\* lines 240-258 (cell In[112]): the remainders of the 6x6 image under the
\* 3x3 filter and strides (1, 1) are bound to the module names gap_r, gap_c.
Cell112 ==
    /\ ipc = "ready"
    /\ {"gap_r", "gap_c"} \cap names = {}
    /\ LET r == reshape_img(cell_img)
           p == pad_img(r.img, PadInt(pad[1]), PadInt(pad[2]), Globals)
           gap == get_remainders_of_filtering(
                      p.img.shape[3], p.img.shape[4],
                      cell_f_shape[1], cell_f_shape[2], cell_strides)
       IN  /\ gap_r' = gap[1]
           /\ gap_c' = gap[2]
    /\ names' = names \cup {"gap_r", "gap_c"}
    /\ UNCHANGED <<pad, ipc, call, ret>>
    /\ UNCHANGED <<bp_vars, ly_vars>>

\* a call im2col(img, f_shape, pad, strides, force) of the function of
\* line 149, run to its return or to the exception that leaves it
Im2colCall ==
    /\ ipc = "ready"
    /\ \E shape \in Shapes, f_shape \in Windows, pad_arg \in Pads,
          strides \in Strides, force \in BOOLEAN :
        /\ call' = [def |-> 149, img |-> shape, f_shape |-> f_shape,
                    pad |-> pad_arg, strides |-> strides, force |-> force,
                    ch_axis |-> 0, inner |-> 0, mat |-> << >>]
        /\ ret' = im2col(Image(shape), f_shape, pad_arg, strides, force,
                         Globals)
    /\ ipc' = "returned"
    /\ UNCHANGED <<names, pad, gap_r, gap_c>>
    /\ UNCHANGED <<bp_vars, ly_vars>>

\* a call im2col(image, window_shape, pad=(0, 0), strides, ch_axis) of the
\* function of line 384
Im2colWindowCall ==
    /\ ipc = "ready"
    /\ \E shape \in Shapes, window_shape \in Windows, strides \in Strides,
          ch_axis \in {0, 1} :
        /\ call' = [def |-> 384, img |-> shape, f_shape |-> window_shape,
                    pad |-> <<PadInt(0), PadInt(0)>>, strides |-> strides,
                    force |-> FALSE, ch_axis |-> ch_axis, inner |-> 0,
                    mat |-> << >>]
        /\ ret' = im2col_window(Image(shape), window_shape, strides, ch_axis,
                                Globals)
    /\ ipc' = "returned"
    /\ UNCHANGED <<names, pad, gap_r, gap_c>>
    /\ UNCHANGED <<bp_vars, ly_vars>>

\* the images of rank 4
Images == {shape \in Shapes : Len(shape) = 4}

\* the all-ones matrix (batch, windows per image, window cells of all
\* channels) of an image, a window and strides
ones(shape, window_shape, strides) ==
    LET s == <<shape[1],
               dst_size(shape[3], window_shape[1], strides[1])
               * dst_size(shape[4], window_shape[2], strides[2]),
               window_shape[1] * window_shape[2] * shape[2]>>
    IN  Array(s, [k \in 1..size(s) |-> 1])

\* a call col2im(im2col(x, window, (0, 0), strides, ch_axis), window,
\* b, c, h, w, strides) on an image x of shape (b, c, h, w), with the
\* functions of lines 384 and 464: the argument is evaluated first
RoundTripCall ==
    /\ ipc = "ready"
    /\ \E shape \in Images, window_shape \in Windows, strides \in Strides,
          ch_axis \in {0, 1} :
        /\ call' = [def |-> 464, img |-> shape, f_shape |-> window_shape,
                    pad |-> <<PadInt(0), PadInt(0)>>, strides |-> strides,
                    force |-> FALSE, ch_axis |-> ch_axis, inner |-> 384,
                    mat |-> << >>]
        /\ LET m == im2col_window(Image(shape), window_shape, strides,
                                  ch_axis, Globals)
           IN  ret' = IF m.raised # "none" THEN m
                      ELSE col2im(Array(m.shape, m.data), window_shape,
                                  shape[1], shape[2], shape[3], shape[4],
                                  Globals)
    /\ ipc' = "returned"
    /\ UNCHANGED <<names, pad, gap_r, gap_c>>
    /\ UNCHANGED <<bp_vars, ly_vars>>

\* a call col2im(mat, window, b, c, h, w, strides) on the all-ones matrix
\* of an image of shape (b, c, h, w)
Col2imCall ==
    /\ ipc = "ready"
    /\ \E shape \in Images, window_shape \in Windows, strides \in Strides :
        /\ window_shape[1] <= shape[3]
        /\ window_shape[2] <= shape[4]
        /\ LET mat == ones(shape, window_shape, strides)
           IN  /\ call' = [def |-> 464, img |-> shape,
                           f_shape |-> window_shape,
                           pad |-> <<PadInt(0), PadInt(0)>>,
                           strides |-> strides, force |-> FALSE,
                           ch_axis |-> 1, inner |-> 0, mat |-> mat.shape]
               /\ ret' = col2im(mat, window_shape, shape[1], shape[2],
                                shape[3], shape[4], Globals)
    /\ ipc' = "returned"
    /\ UNCHANGED <<names, pad, gap_r, gap_c>>
    /\ UNCHANGED <<bp_vars, ly_vars>>

\* the caller has taken the result
Im2colReturn ==
    /\ ipc = "returned"
    /\ ipc' = "ready"
    /\ call' = NoCall
    /\ ret' = NoMatrix
    /\ UNCHANGED <<names, pad, gap_r, gap_c>>
    /\ UNCHANGED <<bp_vars, ly_vars>>

NextIm2col ==
    \/ Cell112
    \/ Im2colCall
    \/ Im2colWindowCall
    \/ RoundTripCall
    \/ Col2imCall
    \/ Im2colReturn

SpecIm2col == InitIm2col /\ [][NextIm2col]_vars

\* ---------------------------------------------------------------- layers
\* The model's layers are built: ActivationLayer(activation) and
\* AffineLayer(output_shape), behind a parent layer of some output shape.
\* Neither constructor raises.
Construct ==
    /\ lpc = "new"
    /\ \E tag \in Tags, shape \in AffineShapes, pshape \in ParentShapes :
          /\ parent' = [output_shape |-> pshape]
          /\ affine_layer' = AffineLayer_init(shape)
          /\ activation_layer' = ActivationLayer_init(tag)
          /\ lop' = [NoOp EXCEPT !.op = "construct"]
    /\ lpc' = "constructed"
    /\ lraised' = "none"
    /\ UNCHANGED <<fwd, ncalls, fcalls>>
    /\ UNCHANGED <<bp_vars, im_vars>>

\* The chain is wired: affine.set_parent(parent), then
\* activation.set_parent(affine).
SetParent ==
    /\ lpc = "constructed"
    /\ \E seed \in Seeds :
          LET rows == np_prod(parent.output_shape)
              cols == np_prod(affine_layer.output_shape)
              a == AffineLayer_set_parent(affine_layer, parent,
                                          Weights(rows, cols, seed))
          IN  /\ affine_layer' = a
              /\ activation_layer' =
                     ActivationLayer_set_parent(activation_layer, a)
    /\ lpc' = "wired"
    /\ lop' = [NoOp EXCEPT !.op = "set_parent"]
    /\ UNCHANGED <<parent, lraised, fwd, ncalls, fcalls>>
    /\ UNCHANGED <<bp_vars, im_vars>>

\* The arithmetic of the chain is carried out for ReLU, which is exact on
\* integers, and for a missing activation object.
Runnable == lpc = "wired" /\ activation_layer.activation \in {"ReLU", "None"}

\* the batches passed to forward and predict
Batches ==
    {Batch(n, affine_layer.input_shape, seed) :
        n \in {1, MaxRows}, seed \in Seeds}

\* the gradients passed to backward: of the shape of the chain's output
Gradients ==
    {Tensor(IF activation_layer.fire = None THEN <<1, 1>>
            ELSE activation_layer.fire.shape, seed) : seed \in Seeds}

\* affine.forward(x)
LayerForward ==
    /\ Runnable
    /\ ncalls < MaxCalls
    /\ ncalls' = ncalls + 1
    /\ \E m \in Batches :
          LET c == chain_forward(affine_layer, activation_layer, m)
          IN  /\ affine_layer' = c.affine
              /\ activation_layer' = c.activation
              /\ lraised' = c.raised
              /\ lpc' = IF c.raised = "none" THEN "wired" ELSE "failed"
              /\ lop' = [op |-> "forward", arg |-> m, ret |-> c.ret,
                        calls |-> c.calls]
              /\ fcalls' = c.calls
              /\ fwd' = IF c.raised # "none" THEN fwd
                        ELSE [x |-> c.affine.x, fire |-> c.affine.fire,
                              mask |-> c.activation.mask,
                              act_fire |-> c.activation.fire]
    /\ UNCHANGED parent
    /\ UNCHANGED <<bp_vars, im_vars>>

\* affine.predict(x)
LayerPredict ==
    /\ Runnable
    /\ ncalls < MaxCalls
    /\ ncalls' = ncalls + 1
    /\ \E m \in Batches :
          LET c == chain_predict(affine_layer, activation_layer, m)
          IN  /\ affine_layer' = c.affine
              /\ activation_layer' = c.activation
              /\ lraised' = c.raised
              /\ lpc' = IF c.raised = "none" THEN "wired" ELSE "failed"
              /\ lop' = [op |-> "predict", arg |-> m, ret |-> c.ret,
                        calls |-> c.calls]
              /\ fcalls' = c.calls
    /\ UNCHANGED <<parent, fwd>>
    /\ UNCHANGED <<bp_vars, im_vars>>

\* activation.backward(dy)
LayerBackward ==
    /\ Runnable
    /\ ncalls < MaxCalls
    /\ ncalls' = ncalls + 1
    /\ \E dy \in Gradients :
          LET c == chain_backward(affine_layer, activation_layer, dy)
          IN  /\ affine_layer' = c.affine
              /\ activation_layer' = c.activation
              /\ lraised' = c.raised
              /\ lpc' = IF c.raised = "none" THEN "wired" ELSE "failed"
              /\ lop' = [op |-> "backward", arg |-> dy, ret |-> c.ret,
                        calls |-> c.calls]
    /\ UNCHANGED <<parent, fwd, fcalls>>
    /\ UNCHANGED <<bp_vars, im_vars>>

\* The engine's __optimize_network after a backward pass: the optimizer of
\* the AffineLayer rewrites layer.w in place, bias row included; the new
\* weights are another matrix of the same shape, a different one per call.
LayerOptimize ==
    /\ Runnable
    /\ lop.op = "backward"
    /\ ncalls < MaxCalls
    /\ ncalls' = ncalls + 1
    /\ affine_layer' =
           [affine_layer EXCEPT
               !.w = Weights(affine_layer.w.shape[1],
                             affine_layer.w.shape[2], ncalls)]
    /\ lop' = [NoOp EXCEPT !.op = "optimize"]
    /\ UNCHANGED <<parent, activation_layer, lpc, lraised, fwd, fcalls>>
    /\ UNCHANGED <<bp_vars, im_vars>>

NextLayers ==
    \/ Construct
    \/ SetParent
    \/ LayerForward
    \/ LayerPredict
    \/ LayerBackward
    \/ LayerOptimize

SpecLayers == InitLayers /\ [][NextLayers]_vars


\* ================================================================ claims
\* ceil(n / k)
NumBatches(n, k) == (n + k - 1) \div k

InBatchLoop == pc \in {"batch", "forward", "backward", "optimize", "evaluate"}

\* C1: one epoch cuts the n training samples into ceil(n/k) contiguous,
\* in-order, non-overlapping batches covering every sample once, each of size
\* k except the last of size n - k*(ceil(n/k)-1), and each layer with weights
\* has its optimizer invoked exactly once per batch.
C1_BatchSlicing ==
    InBatchLoop =>
        LET n == Len(x_train)
            k == batch_size
            nb == NumBatches(n, k)
        IN /\ Len(batches) <= nb
           /\ i = k * Len(batches)
           /\ (pc = "evaluate" => Len(batches) = nb)
           /\ \A j \in 1..Len(batches) :
                 LET last == IF j < nb THEN j * k ELSE n
                 IN /\ batches[j].x = SubSeq(x_train, (j - 1) * k + 1, last)
                    /\ batches[j].y = SubSeq(y_train, (j - 1) * k + 1, last)
                    /\ Len(batches[j].x) =
                          IF j < nb THEN k ELSE n - k * (nb - 1)
           /\ n_updates = epoch * nb + Len(batches)
           /\ \A p \in WeightPositions(layers) :
                 /\ p \in DOMAIN optimizers
                 /\ heap[optimizers[p]] = n_updates

\* the first epoch of 10 samples in batches of 3 is through: sizes 3, 3, 3, 1
\* and four updates of the layer with weights
C1_Witness ==
    /\ pc = "evaluate"
    /\ epoch = 0
    /\ Len(x_train) = 10
    /\ batch_size = 3
    /\ [j \in 1..Len(batches) |-> Len(batches[j].x)] = <<3, 3, 3, 1>>
    /\ n_updates = 4
    /\ \E p \in WeightPositions(layers) : heap[optimizers[p]] = 4

\* C2: every batch runs Forward (on the batch's inputs), then Backward
\* (seeded with that forward's fire and the batch's targets), then
\* OptimizeWeights; the forward of the next batch starts only from the loop
\* head after that update and reads the updated weights.
C2_BatchOrder ==
    [][ LET x_batch == Slice(x_train, i, i + batch_size)
            y_batch == Slice(y_train, i, i + batch_size)
            wp == WeightPositions(layers)
        IN /\ (pc' = "forward" => pc = "batch")
           /\ (pc' = "batch" => pc \in {"epoch", "optimize"})
           /\ (pc = "forward" /\ pc' # "aborted" =>
                 /\ pc' = "backward"
                 /\ fire'.x = x_batch
                 /\ fire'.w = w
                 /\ \A p \in wp : w[p] = n_updates)
           /\ (pc = "backward" /\ pc' # "aborted" =>
                 /\ pc' = "optimize"
                 /\ fire.x = x_batch
                 /\ \A p \in wp : dw'[p] = [fire |-> fire, t |-> y_batch])
           /\ (pc = "optimize" /\ pc' # "aborted" =>
                 /\ pc' = "batch"
                 /\ n_updates' = n_updates + 1
                 /\ \A p \in wp : /\ w'[p] = w[p] + 1
                                  /\ dw[p].fire.x = x_batch) ]_vars

C2_Witness ==
    /\ pc = "backward"
    /\ n_updates >= 1
    /\ \E p \in WeightPositions(layers) : fire.w[p] = n_updates

\* C3: the epoch loop runs exactly `epochs` times, each iteration all batches
\* of the epoch and then one Evaluate; a completed fit has done `epochs`
\* evaluations and epochs * ceil(n/batch_size) batch updates.
C3_EpochCount ==
    LET nb == NumBatches(Len(x_train), batch_size)
    IN /\ (pc \in {"epoch", "finalize", "done"} =>
             n_evals = epoch /\ n_updates = epoch * nb)
       /\ (pc \in {"finalize", "done"} => epoch = epochs)
       /\ (InBatchLoop => epoch < epochs /\ n_evals = epoch)
       /\ (pc = "done" =>
             n_evals = epochs /\ n_updates = epochs * nb)

C3_Witness ==
    /\ pc = "done"
    /\ epochs = 2
    /\ n_evals = 2
    /\ Len(x_train) = 3
    /\ batch_size = 2
    /\ n_updates = 4

\* C4: optimizer initialization runs once per fit call, before the first
\* batch, and drops the optimizers of a previous fit; afterwards the keys of
\* the optimizer map are exactly the chain positions of the layers with
\* weights, and the updates of the layer at position p went through the
\* optimizer under key p.
C4_OptimizerInit ==
    /\ (pc = "idle" => n_init = 0)
    /\ (pc # "idle" =>
          /\ n_init = 1
          /\ DOMAIN optimizers = WeightPositions(layers)
          /\ raised # "KeyError"
          /\ \A p \in DOMAIN optimizers : heap[optimizers[p]] = w[p]
          /\ (pc = "epoch" /\ epoch = 0 =>
                \A p \in DOMAIN optimizers :
                    heap[optimizers[p]] = heap[optimizer]))

C4_Witness ==
    /\ pc = "forward"
    /\ refit
    /\ n_updates >= 1
    /\ WeightPositions(layers) = {2}
    /\ DOMAIN optimizers = {2}
    /\ heap[optimizers[2]] = n_updates

\* C5: finalize_training is invoked exactly once per completed fit, only
\* after the last epoch's Evaluate, never between epochs or batches.
C5_FinalizeOnce ==
    /\ n_finalize \in {0, 1}
    /\ (n_finalize = 1 <=> pc = "done")
    /\ (pc \in {"finalize", "done"} => n_evals = epochs /\ epoch = epochs)

C5_Witness ==
    /\ pc = "done"
    /\ n_finalize = 1
    /\ epochs = 2
    /\ n_evals = 2

\* C6: for every loss function and test data, empty or not, Evaluate
\* completes without error, computing the training loss always, the test
\* loss exactly when there is test data, and accuracy exactly when the loss
\* is not squared error (test accuracy only when there is test data).
C6_EvaluateCompletes ==
    evaluation # NoEvaluation =>
        /\ evaluation.raised = "none"
        /\ evaluation.loss_train
        /\ evaluation.loss_test = (Len(x_test) # 0)
        /\ evaluation.acc_train = (loss_function # "SquaredError")
        /\ evaluation.acc_test =
              (loss_function # "SquaredError" /\ Len(x_test) # 0)

\* C7: an error raised by a forward, backward or optimize step aborts fit
\* there: the batch is not retried, no later batch, epoch, Evaluate or
\* FinalizeTraining runs, and the error reaches the caller.
C7_ErrorAborts ==
    [][ /\ (raised' # "none" => pc' = "aborted")
        /\ (pc' = "aborted" =>
              /\ raised' # "none"
              /\ n_updates' = n_updates
              /\ n_evals' = n_evals
              /\ n_finalize' = 0)
        /\ (pc = "aborted" => pc' = "idle") ]_vars

C7_Witness ==
    /\ pc = "aborted"
    /\ raised = "Error"
    /\ n_updates >= 1
    /\ n_evals < epochs
    /\ n_finalize = 0

\* ---------------------------------------------------------------- im2col
\* the call is one of the function of line 149 that has returned or raised
Returned149 == ipc = "returned" /\ call.def = 149

\* the 4-d shape of the image of the call (rank 2 to 4)
CallShape == reshape_img(Image(call.img)).img.shape

\* rows and cols of the image of the call with the pad the call asks for
PaddedRows == CallShape[3] + call.pad[1].a + call.pad[1].b

PaddedCols == CallShape[4] + call.pad[2].a + call.pad[2].b

\* the remainders of the call: (padded_rows - wr) mod sr, and for cols
CallGap ==
    get_remainders_of_filtering(PaddedRows, PaddedCols,
                                call.f_shape[1], call.f_shape[2], call.strides)

\* C8: for every image of shape (b, c, h, w) and window (wr, wc) with
\* wr <= h and wc <= w, im2col with pad (0, 0) and strides (1, 1) returns a
\* matrix of shape (b*(h-wr+1)*(w-wc+1), c*wr*wc).
C8_ShapeLaw ==
    (/\ Returned149
     /\ Len(call.img) = 4
     /\ call.pad = <<PadInt(0), PadInt(0)>>
     /\ call.strides = <<1, 1>>
     /\ call.f_shape[1] <= call.img[3]
     /\ call.f_shape[2] <= call.img[4])
    => /\ ret.raised = "none"
       /\ ret.shape =
            <<call.img[1] * (call.img[3] - call.f_shape[1] + 1)
                          * (call.img[4] - call.f_shape[2] + 1),
              call.img[2] * call.f_shape[1] * call.f_shape[2]>>

\* a call of the shape law with several images, channels, a window larger
\* than 1x1 and smaller than the image, which returned its matrix
C8_Witness ==
    /\ Returned149
    /\ Len(call.img) = 4
    /\ call.pad = <<PadInt(0), PadInt(0)>>
    /\ call.strides = <<1, 1>>
    /\ call.img[1] > 1 /\ call.img[2] > 1
    /\ call.f_shape[1] > 1 /\ call.f_shape[1] < call.img[3]
    /\ call.f_shape[2] > 1 /\ call.f_shape[2] < call.img[4]
    /\ call.img[3] # call.img[4]
    /\ ret.raised = "none"
    /\ ret.shape = <<call.img[1] * (call.img[3] - 1) * (call.img[4] - 1),
                     call.img[2] * 4>>
    /\ ret.pimg.shape = call.img

\* C9: for every image, window and strides where (padded_rows - wr) mod sr
\* or (padded_cols - wc) mod sc is not 0, im2col with force=False raises an
\* error and returns no matrix.
C9_ImproperStridesRaise ==
    (/\ ipc = "returned"
     /\ call.def \in {149, 384}
     /\ Len(call.img) \in 2..4
     /\ ~call.force
     /\ (CallGap[1] # 0 \/ CallGap[2] # 0))
    => /\ ret.raised # "none"
       /\ ret.shape = << >>

\* C10: for every padded image size, window and strides with a nonzero
\* remainder, im2col with force=True succeeds, and the image it extends by
\* gap//2 before and gap - gap//2 after on each axis has rows and cols with
\* (rows - wr) mod sr = 0 and (cols - wc) mod sc = 0.
C10_ForceExtends ==
    (/\ Returned149
     /\ Len(call.img) \in 2..4
     /\ call.force
     /\ (CallGap[1] # 0 \/ CallGap[2] # 0))
    => /\ ret.raised = "none"
       /\ ret.pimg.shape[3] = PaddedRows + CallGap[1]
       /\ ret.pimg.shape[4] = PaddedCols + CallGap[2]
       /\ ret.pimg.top = call.pad[1].a + (CallGap[1] \div 2)
       /\ ret.pimg.left = call.pad[2].a + (CallGap[2] \div 2)
       /\ (ret.pimg.shape[3] - call.f_shape[1]) % call.strides[1] = 0
       /\ (ret.pimg.shape[4] - call.f_shape[2]) % call.strides[2] = 0

\* ---------------------------------------------------------------- col2im
\* C11: for every image x of shape (b, c, h, w) and window (wr, wc) with
\* strides equal to the window and h, w multiples of wr, wc,
\* col2im(im2col(x, window, pad 0, strides), window, b, c, h, w, strides)
\* equals x element for element.
C11_RoundTrip ==
    (/\ ipc = "returned"
     /\ call.def = 464
     /\ call.inner = 384
     /\ call.strides = call.f_shape
     /\ call.img[3] % call.f_shape[1] = 0
     /\ call.img[4] % call.f_shape[2] = 0)
    => /\ ret.raised = "none"
       /\ ret.shape = call.img
       /\ ret.data = cells_of(Image(call.img)).at

\* the number of windows of the call that cover pixel (y, x) of its image
Covering(y, x) ==
    Cardinality(
        {t \in (0..(dst_size(call.img[3], call.f_shape[1], call.strides[1])
                    - 1))
               \X (0..(dst_size(call.img[4], call.f_shape[2],
                                call.strides[2]) - 1)) :
            /\ t[1] * call.strides[1] <= y
            /\ y < t[1] * call.strides[1] + call.f_shape[1]
            /\ t[2] * call.strides[2] <= x
            /\ x < t[2] * call.strides[2] + call.f_shape[2]})

\* C12: when windows overlap (stride smaller than the window), col2im sets
\* every pixel to the sum of the matrix entries of all windows covering it:
\* on an all-ones matrix, to the number of windows covering it.
C12_OverlapSum ==
    (/\ ipc = "returned"
     /\ call.def = 464
     /\ call.inner = 0
     /\ (call.strides[1] < call.f_shape[1]
         \/ call.strides[2] < call.f_shape[2])
     /\ (call.img[3] - call.f_shape[1]) % call.strides[1] = 0
     /\ (call.img[4] - call.f_shape[2]) % call.strides[2] = 0)
    => /\ ret.raised = "none"
       /\ ret.shape = call.img
       /\ Len(ret.data) = size(call.img)
       /\ \A k \in 1..Len(ret.data) :
             LET t == unravel(k - 1, call.img)
             IN  ret.data[k] = Covering(t[3], t[4])

\* C13: im2col accepts exactly the image ranks 2, 3 and 4, reshaping ranks
\* 2 and 3 to 4-D by leading axes of size 1, and fails with an error for
\* every other rank, rank 1 and rank 5 included.
C13_Ranks ==
    Returned149 =>
        /\ (Len(call.img) \notin 2..4 => ret.raised # "none")
        /\ (/\ Len(call.img) \in 2..4
            /\ call.strides = <<1, 1>>
            /\ call.f_shape[1] <= CallShape[3]
            /\ call.f_shape[2] <= CallShape[4])
           => /\ ret.raised = "none"
              /\ Len(ret.pimg.shape) = 4
              /\ \A j \in 1..(4 - Len(call.img)) : ret.pimg.shape[j] = 1
              /\ ret.pimg.shape[1] * ret.pimg.shape[2]
                 = size(SubSeq(call.img, 1, Len(call.img) - 2))

\* the members of Activation.Type, as passed to ActivationLayer
KnownTags == {EnumTag(name) : name \in Type}

\* C14: constructing an ActivationLayer with a tag that is not a known
\* activation type fails at construction; a constructed layer never has a
\* missing activation object that fails only later, in forward or backward.
C14_UnknownTagFails ==
    lpc # "new" =>
        /\ activation_layer.tag \in KnownTags
        /\ activation_layer.activation # "None"
        /\ ~(lop.op \in {"forward", "predict", "backward"}
             /\ lraised = "AttributeError"
             /\ activation_layer.activation = "None")

\* C15: predict does no gradient bookkeeping.  After a forward call, predict
\* calls on other data leave what backward reads (each layer's fire, the
\* AffineLayer's x, the ReLU's mask) as that forward call left it, and the
\* following backward gives the backfire and the weight gradient it would
\* have given with no predict call in between.
C15_PredictNoBookkeeping ==
    (fwd # NoForward /\ lraised = "none"
       /\ lop.op \in {"predict", "backward"}) =>
        /\ affine_layer.x = fwd.x
        /\ affine_layer.fire = fwd.fire
        /\ activation_layer.mask = fwd.mask
        /\ activation_layer.fire = fwd.act_fire
        /\ lop.op = "backward" =>
               LET c == chain_backward(affine_layer, activation_layer, lop.arg)
               IN  /\ affine_layer.dw = c.affine.dw
                   /\ affine_layer.backfire = c.affine.backfire
                   /\ activation_layer.backfire = c.activation.backfire

\* sum over the first n samples of x[k, r] * dy[k, c]
RECURSIVE SumSamples(_, _, _, _, _)
SumSamples(sx, dy, r, c, n) ==
    IF n = 0 THEN 0
    ELSE sx.at[(n - 1) * sx.shape[2] + r + 1]
           * dy.at[(n - 1) * dy.shape[2] + c + 1]
         + SumSamples(sx, dy, r, c, n - 1)

\* the gradient the AffineLayer receives in a backward pass, as a matrix
AffineDy(l, a) ==
    [shape |-> <<a.x.shape[1], np_prod(a.output_shape)>>,
     at |-> l.backfire.at]

\* C16: the weight w of an AffineLayer is changed only by the optimizer:
\* forward, backward and predict leave it unchanged; and every backward call
\* replaces dw by the gradient of that call alone, 1/batch_size * x^T dy,
\* whatever dw held before.
C16_WeightFrame ==
    [][/\ lop'.op \in {"forward", "backward", "predict"}
            => affine_layer'.w = affine_layer.w
       /\ (lop'.op = "backward" /\ lraised' = "none" /\ ncalls' # ncalls)
            => LET sx == affine_layer.x
                   dy == AffineDy(activation_layer', affine_layer)
                   g == affine_layer'.dw
               IN  /\ g.den = sx.shape[1]
                   /\ g.num.shape = <<sx.shape[2], dy.shape[2]>>
                   /\ \A r \in 0..(sx.shape[2] - 1), c \in 0..(dy.shape[2] - 1) :
                          g.num.at[r * dy.shape[2] + c + 1]
                              = SumSamples(sx, dy, r, c, sx.shape[1])]_vars

\* a backward call ran after the optimizer had rewritten w, and left a
\* gradient that is not zero
C16_Witness ==
    /\ lop.op = "backward"
    /\ lraised = "none"
    /\ \E k \in 1..affine_layer.w.shape[2] : affine_layer.w.at[k] # 0
    /\ affine_layer.dw.den = MaxRows
    /\ \E k \in DOMAIN affine_layer.dw.num.at : affine_layer.dw.num.at[k] # 0

\* the step that wires an AffineLayer built with output_shape=10
WiresTen ==
    /\ lpc = "constructed"
    /\ lpc' = "wired"
    /\ affine_layer.output_shape = IntShape(OutputClasses)

\* C17: after wiring an AffineLayer built with output_shape=10 behind any
\* parent, its output_shape is still the integer 10, the number of features
\* of one sample, with no batch axis; its weight has np.prod(input_shape) + 1
\* rows and 10 columns, the ActivationLayer behind it takes 10 as its shapes,
\* and a forward call on a batch of n samples leaves a fire of shape (n, 10).
C17_OutputShapeKept ==
    [][/\ WiresTen =>
            /\ affine_layer'.output_shape = IntShape(OutputClasses)
            /\ affine_layer'.input_shape = parent.output_shape
            /\ affine_layer'.w.shape
                   = <<np_prod(parent.output_shape) + 1, OutputClasses>>
            /\ activation_layer'.output_shape = IntShape(OutputClasses)
       /\ (/\ lop'.op = "forward"
           /\ ncalls' # ncalls
           /\ affine_layer.output_shape = IntShape(OutputClasses))
            => affine_layer'.fire.shape = <<lop'.arg.shape[1], OutputClasses>>
      ]_vars

\* a chain with output_shape=10 behind an image-shaped parent has run a
\* forward call on a batch of several samples
C17_Witness ==
    /\ lpc = "wired"
    /\ lop.op = "forward"
    /\ parent.output_shape = TupleShape(<<1, 1, MaxFeatures>>)
    /\ affine_layer.output_shape = IntShape(OutputClasses)
    /\ affine_layer.fire.shape = <<MaxRows, OutputClasses>>

\* C17 as stated: after wiring an AffineLayer built with output_shape=10, its
\* output_shape is the pair (batch, 10).
C17_BatchShape ==
    [][WiresTen =>
            /\ affine_layer'.output_shape.tuple
            /\ Len(affine_layer'.output_shape.dims) = 2
            /\ affine_layer'.output_shape.dims[2] = OutputClasses]_vars

\* C18: the optimizers fit creates are independent values.  No two layers
\* share an optimizer object and none is the template; an update through one
\* changes the state of that one only, so each holds exactly the updates of
\* its own layer and the template keeps the state it was given; a later fit
\* starts every optimizer from that unmodified template state.
C18_IndependentOptimizers ==
    /\ heap[optimizer] = 0
    /\ \A p \in DOMAIN optimizers :
          /\ optimizers[p] # optimizer
          /\ optimizers[p] \in DOMAIN heap
          /\ \A q \in DOMAIN optimizers :
                 p # q => optimizers[p] # optimizers[q]
          /\ pc # "idle" => heap[optimizers[p]] = w[p]
          /\ (pc = "epoch" /\ epoch = 0) => heap[optimizers[p]] = heap[optimizer]

\* in a second fit call on the same engine, the optimizer of the first layer
\* has been updated and the one of the second layer has not
C18_Witness ==
    /\ refit
    /\ DOMAIN optimizers = {1, 2}
    /\ heap[optimizers[1]] > heap[optimizers[2]]
    /\ heap[optimizer] = 0

\* the image of the call, zero-padded as its pad argument asks
PaddedImage ==
    [shape |-> <<CallShape[1], CallShape[2], PaddedRows, PaddedCols>>,
     top |-> call.pad[1].a,
     left |-> call.pad[2].a,
     bottom |-> call.pad[1].b,
     right |-> call.pad[2].b]

\* window and strides fit the padded image evenly
DividesEvenly ==
    /\ Len(call.img) \in 2..4
    /\ call.f_shape[1] <= PaddedRows
    /\ call.f_shape[2] <= PaddedCols
    /\ (PaddedRows - call.f_shape[1]) % call.strides[1] = 0
    /\ (PaddedCols - call.f_shape[2]) % call.strides[2] = 0

\* C19: for every image, window (wr, wc) and strides (sr, sc) dividing
\* evenly, the matrix im2col returns has dst_rows = (rows - wr) // sr + 1 by
\* dst_cols = (cols - wc) // sc + 1 windows per image, and its entry at row
\* n*dst_rows*dst_cols + i*dst_cols + j and column ch*wr*wc + u*wc + v is
\* padded_image[n, ch, i*sr + u, j*sc + v].
C19_Entries ==
    (Returned149 /\ DividesEvenly) =>
        LET wr == call.f_shape[1]
            wc == call.f_shape[2]
            sr == call.strides[1]
            sc == call.strides[2]
            dst_rows == (PaddedRows - wr) \div sr + 1
            dst_cols == (PaddedCols - wc) \div sc + 1
            ncols == CallShape[2] * wr * wc
            padded == cells_of(PaddedImage)
        IN  /\ ret.raised = "none"
            /\ ret.shape = <<CallShape[1] * dst_rows * dst_cols, ncols>>
            /\ \A n \in 0..(CallShape[1] - 1), ch \in 0..(CallShape[2] - 1),
                  r \in 0..(dst_rows - 1), c \in 0..(dst_cols - 1),
                  u \in 0..(wr - 1), v \in 0..(wc - 1) :
                   ret.data[(n * dst_rows * dst_cols + r * dst_cols + c) * ncols
                            + (ch * wr * wc + u * wc + v) + 1]
                       = cell(padded, <<n, ch, r * sr + u, c * sc + v>>)

\* C20: for every pad descriptor, an int p or a pair (before, after) per
\* axis, im2col zero-pads the row and column axes only: the padded image has
\* rows + before_r + after_r rows and cols + before_c + after_c columns, the
\* original pixels sit at offset (before_r, before_c), every added cell is 0,
\* and the batch and channel axes keep their sizes.
C20_ZeroPadding ==
    (/\ Returned149
     /\ Len(call.img) \in 2..4
     /\ ~call.force
     /\ ret.raised = "none") =>
        /\ ret.pimg.shape
               = <<CallShape[1], CallShape[2], PaddedRows, PaddedCols>>
        /\ ret.pimg.top = call.pad[1].a
        /\ ret.pimg.left = call.pad[2].a
        /\ cells_of(ret.pimg) = cells_of(PaddedImage)

\* the layers of the calls of the latest pass, in the order the calls began
CallOrder == [k \in 1..Len(lop.calls) |-> lop.calls[k].layer]

\* C21: a backward pass runs the layers' backward computations strictly in
\* reverse chain order, each exactly once: a layer has computed and stored
\* its backfire before its parent's backward begins, and the parent's
\* backward receives exactly that backfire as dy.  Symmetrically a forward
\* pass computes each layer's fire before it calls the child's forward with
\* exactly that fire, once per layer in chain order.
C21_PassOrder ==
    /\ (lop.op = "backward" /\ lraised = "none") =>
          /\ CallOrder = <<"activation", "affine", "parent">>
          /\ \A k \in 1..3 : lop.calls[k].method = "backward"
          /\ lop.calls[1].arg = lop.arg
          /\ lop.calls[1].out = activation_layer.backfire
          /\ lop.calls[2].arg = lop.calls[1].out
          /\ lop.calls[2].out = affine_layer.backfire
          /\ lop.calls[3].arg = lop.calls[2].out
          /\ affine_layer.dw
                 = weight_gradient(affine_layer.x,
                                   AffineDy(activation_layer, affine_layer))
    /\ (lop.op = "forward" /\ lraised = "none") =>
          /\ CallOrder = <<"affine", "activation", "child">>
          /\ \A k \in 1..3 : lop.calls[k].method = "forward"
          /\ lop.calls[1].arg = lop.arg
          /\ lop.calls[1].out = affine_layer.fire
          /\ lop.calls[2].arg = lop.calls[1].out
          /\ lop.calls[2].out = activation_layer.fire
          /\ lop.calls[3].arg = lop.calls[2].out

\* a backward pass has run in which the gradient handed to the AffineLayer
\* differs from the one the ActivationLayer received
C21_Witness ==
    /\ lop.op = "backward"
    /\ lraised = "none"
    /\ Len(lop.calls) = 3
    /\ lop.calls[2].arg # lop.calls[1].arg
    /\ \E k \in DOMAIN lop.calls[2].arg.at : lop.calls[2].arg.at[k] # 0
    /\ \E k \in DOMAIN lop.calls[3].arg.at : lop.calls[3].arg.at[k] # 0

\* a backward pass has run to its end after a forward or predict pass
BackwardDone ==
    /\ lop.op = "backward"
    /\ lraised = "none"
    /\ Len(fcalls) = 3

ActivateInput == fcalls[2].arg.at

\* C23: after any sequence of activate calls on a ReLU, grad returns the mask
\* recorded by the most recent activate call: every entry is 0 or 1, and it is
\* 1 exactly where that call's input was strictly positive; activate returned
\* the input multiplied entry by entry by that mask.
C23_ReLUMask ==
    (Len(fcalls) = 3 /\ lraised = "none") =>
        LET mask == ReLU_grad(activation_layer.mask, activation_layer.fire)
        IN  /\ DOMAIN mask.at = DOMAIN ActivateInput
            /\ \A k \in DOMAIN ActivateInput :
                  /\ mask.at[k] \in {0, 1}
                  /\ mask.at[k] = 1 <=> ActivateInput[k] > 0
                  /\ fcalls[2].out.at[k] = ActivateInput[k] * mask.at[k]
                  /\ activation_layer.fire.at[k] = ActivateInput[k] * mask.at[k]
                  /\ lop.op = "backward" =>
                        activation_layer.backfire.at[k] = lop.arg.at[k] * mask.at[k]

\* after a forward and then a predict pass that left another mask, a backward
\* pass has used the mask of the predict pass, whose input had positive, zero
\* and negative entries
C23_Witness ==
    /\ lop.op = "backward"
    /\ lraised = "none"
    /\ Len(fcalls) = 3
    /\ fcalls[2].method = "predict"
    /\ fwd.mask # activation_layer.mask
    /\ \E k \in DOMAIN ActivateInput : ActivateInput[k] > 0
    /\ \E k \in DOMAIN ActivateInput : ActivateInput[k] = 0
    /\ \E k \in DOMAIN ActivateInput : ActivateInput[k] < 0
    /\ \E k \in DOMAIN lop.arg.at :
          lop.arg.at[k] # 0 /\ activation_layer.backfire.at[k] = 0

\* C24: for every member of Activation.Type, the object ActivationFactory.get
\* returns reports through get_type() the tag that names the member, so
\* distinct members report distinct, matching tags.
C24_TypeTags ==
    (lpc # "new" /\ activation_layer.tag \in KnownTags) =>
        /\ activation_layer.activation # "None"
        /\ get_type(activation_layer.activation) = activation_layer.tag.name
        /\ \A name \in Type :
              name # activation_layer.tag.name =>
                  get_type(ActivationFactory_get(EnumTag(name)))
                      # get_type(activation_layer.activation)
====
